---- MODULE Spec2Model ----
(***************************************************************************)
(* A model of openelex/base/bake.py: the Roller (filter building, the      *)
(* in-memory join of Result with Candidate and Contest, row flattening)    *)
(* and the Baker (collect_items, write, write_manifest).                   *)
(*                                                                         *)
(* Text values are sequences of one-character strings, so that upper(),    *)
(* lower(), substring matching, strptime() and strftime() are computed.    *)
(* Field names and collection names are plain strings: they are only ever  *)
(* used as dictionary keys.                                                *)
(***************************************************************************)
EXTENDS Integers, Sequences, FiniteSets, TLC

VARIABLES
    store,      \* the three collections of the document store
    baker,      \* the Baker: filter_kwargs, _items, _fields
    roller,     \* the Roller: _querysets, _relationships, _output_fields, _fields, _items
    pc,         \* position of the running collect_items / get_list call
    idx,        \* position of the loop over the primary queryset
    rel_order,  \* the order in which this run's dicts yield the relationships
    related_map,\* get_list's local related_map (records shared between rows)
    origin,     \* history: for row i, the Result and related record ids it was built from
    last,       \* the Baker method called last
    err,        \* the exception the last call raised ("none" when it returned)
    out,        \* what the last call wrote or returned
    log,        \* store operations performed through the current Roller's querysets
    nq,         \* queries executed against the store since the process started
    runs,       \* collect_items calls started
    dateIn,     \* argument of a build_date_filters call
    dateOut,    \* its result
    nameIn,     \* two writes: the state, the timestamp and the format of each
    nameOut,    \* the file names the Baker gives them
    recIn,      \* argument of a transform_field_names call: collection and record
    recOut,     \* the record it returned
    calls       \* the criteria of the get_list calls made on the Roller directly

vars == <<store, baker, roller, pc, idx, rel_order, related_map, origin, last, err, out, log,
          nq, runs, dateIn, dateOut, nameIn, nameOut, recIn, recOut, calls>>

----------------------------------------------------------------------------
(* Bounds of the model *)

\* longest datefilter string given to build_date_filters on its own
MaxLen == 8
\* most Result records in the store
MaxResults == 2
\* most collect_items calls on one Baker
MaxRuns == 1

\* get_list calls made on one Roller
MaxCalls == 2

----------------------------------------------------------------------------
(* Text *)

Digits == {"0", "1", "2", "3", "4", "5", "6", "7", "8", "9"}

DigitVal(c) ==
    CASE c = "0" -> 0 [] c = "1" -> 1 [] c = "2" -> 2 [] c = "3" -> 3
      [] c = "4" -> 4 [] c = "5" -> 5 [] c = "6" -> 6 [] c = "7" -> 7
      [] c = "8" -> 8 [] c = "9" -> 9

DigitChar(n) ==
    CASE n = 0 -> "0" [] n = 1 -> "1" [] n = 2 -> "2" [] n = 3 -> "3"
      [] n = 4 -> "4" [] n = 5 -> "5" [] n = 6 -> "6" [] n = 7 -> "7"
      [] n = 8 -> "8" [] n = 9 -> "9"

\* str.upper() on one character (the letters the model uses)
UpperChar(c) ==
    CASE c = "m" -> "M" [] c = "d" -> "D" [] c = "o" -> "O"
      [] OTHER -> c

\* str.lower() on one character
LowerChar(c) ==
    CASE c = "M" -> "m" [] c = "D" -> "d" [] c = "O" -> "o"
      [] OTHER -> c

Upper(s) == [i \in 1..Len(s) |-> UpperChar(s[i])]

Lower(s) == [i \in 1..Len(s) |-> LowerChar(s[i])]

\* the store's "contains" operator: sub occurs in s as a substring
Contains(s, sub) ==
    \E i \in 0..(Len(s) - Len(sub)) :
        \A j \in 1..Len(sub) : s[i + j] = sub[j]

\* a number written without a leading zero
Unpadded2(n) ==
    IF n < 10 THEN <<DigitChar(n)>>
    ELSE <<DigitChar(n \div 10), DigitChar(n % 10)>>

\* a number as two digits (strftime's %m, %d, %H, %M, %S)
Pad2(n) == <<DigitChar(n \div 10), DigitChar(n % 10)>>

Pad4(n) ==
    <<DigitChar(n \div 1000), DigitChar((n \div 100) % 10),
      DigitChar((n \div 10) % 10), DigitChar(n % 10)>>

----------------------------------------------------------------------------
(* datetime.strptime and datetime.strftime for the formats of the table *)

\* Roller.datefilter_formats: input format -> format of the match string
datefilter_formats ==
    ("%Y" :> "%Y") @@ ("%Y%m" :> "%Y-%m") @@ ("%Y%m%d" :> "%Y-%m-%d")

\* the orders in which a dict's items() can yield the three formats
FormatOrders ==
    {o \in [1..3 -> DOMAIN datefilter_formats] :
        \A i, j \in 1..3 : i # j => o[i] # o[j]}

CharAt(s, i) == IF i <= Len(s) THEN s[i] ELSE "$"

\* Ways the directive %m can match the characters a, b at position i, in the
\* order the regular expression 1[0-2]|0[1-9]|[1-9] tries them:
\* <<month, next position>>
MatchMChars(a, b, i) ==
    (IF a = "1" /\ b \in {"0", "1", "2"}
        THEN <<<<10 + DigitVal(b), i + 2>>>> ELSE <<>>)
    \o (IF a = "0" /\ b \in Digits \ {"0"}
        THEN <<<<DigitVal(b), i + 2>>>> ELSE <<>>)
    \o (IF a \in Digits \ {"0"}
        THEN <<<<DigitVal(a), i + 1>>>> ELSE <<>>)

MatchM(s, i) == MatchMChars(CharAt(s, i), CharAt(s, i + 1), i)

\* Ways %d can match at position i, in the order of
\* 3[0-1]|[1-2]\d|0[1-9]|[1-9]| [1-9]
MatchDChars(a, b, i) ==
    (IF a = "3" /\ b \in {"0", "1"}
        THEN <<<<30 + DigitVal(b), i + 2>>>> ELSE <<>>)
    \o (IF a \in {"1", "2"} /\ b \in Digits
        THEN <<<<10 * DigitVal(a) + DigitVal(b), i + 2>>>> ELSE <<>>)
    \o (IF a = "0" /\ b \in Digits \ {"0"}
        THEN <<<<DigitVal(b), i + 2>>>> ELSE <<>>)
    \o (IF a \in Digits \ {"0"}
        THEN <<<<DigitVal(a), i + 1>>>> ELSE <<>>)
    \o (IF a = " " /\ b \in Digits \ {"0"}
        THEN <<<<DigitVal(b), i + 2>>>> ELSE <<>>)

MatchD(s, i) == MatchDChars(CharAt(s, i), CharAt(s, i + 1), i)

NoMatch == [ok |-> FALSE, y |-> 0, m |-> 0, d |-> 0, end |-> 0]

\* %Y: four digits
MatchY(s) ==
    IF \A i \in 1..4 : CharAt(s, i) \in Digits
    THEN [ok |-> TRUE,
          y |-> 1000 * DigitVal(s[1]) + 100 * DigitVal(s[2])
                + 10 * DigitVal(s[3]) + DigitVal(s[4]),
          m |-> 1, d |-> 1, end |-> 5]
    ELSE NoMatch

\* %Y%m after the year: the first way %m matches
ThenM(my, ms) ==
    IF my.ok /\ ms # <<>>
    THEN [my EXCEPT !.m = ms[1][1], !.end = ms[1][2]]
    ELSE NoMatch

\* %d after the k-th way %m matches: the first way %d matches there
ThenD(my, mk, ds) ==
    IF ds # <<>>
    THEN [my EXCEPT !.m = mk[1], !.d = ds[1][1], !.end = ds[1][2]]
    ELSE NoMatch

ThenMD(s, my, ms, k) ==
    IF my.ok /\ k <= Len(ms)
    THEN ThenD(my, ms[k], MatchD(s, ms[k][2]))
    ELSE NoMatch

FirstMatch(a, b, c) == IF a.ok THEN a ELSE IF b.ok THEN b ELSE c

\* The first match of the format's regular expression at the start of s
\* (re.match: alternatives in order, backtracking into %m when %d fails,
\* not anchored at the end)
RegexMatchFrom(s, infmt, my, ms) ==
    CASE infmt = "%Y"     -> my
      [] infmt = "%Y%m"   -> ThenM(my, ms)
      [] infmt = "%Y%m%d" -> FirstMatch(ThenMD(s, my, ms, 1),
                                        ThenMD(s, my, ms, 2),
                                        ThenMD(s, my, ms, 3))

RegexMatch(s, infmt) == RegexMatchFrom(s, infmt, MatchY(s), MatchM(s, 5))

IsLeap(y) == (y % 4 = 0 /\ y % 100 # 0) \/ y % 400 = 0

DaysInMonth(y, m) ==
    IF m = 2 THEN (IF IsLeap(y) THEN 29 ELSE 28)
    ELSE IF m \in {4, 6, 9, 11} THEN 30 ELSE 31

\* what strptime makes of the match r of a string of n characters
Parsed(r, n) ==
    IF r.ok /\ r.end = n + 1 /\ r.y >= 1 /\ r.d <= DaysInMonth(r.y, r.m)
    THEN [ok |-> TRUE, y |-> r.y, m |-> r.m, d |-> r.d]
    ELSE [ok |-> FALSE, y |-> 0, m |-> 0, d |-> 0]

\* datetime.strptime(s, infmt): a date, or ValueError (no match, unconverted
\* data remains, or a day or year out of range)
Strptime(s, infmt) == Parsed(RegexMatch(s, infmt), Len(s))

\* date.strftime(outfmt)
Strftime(date, outfmt) ==
    CASE outfmt = "%Y"       -> Pad4(date.y)
      [] outfmt = "%Y-%m"    -> Pad4(date.y) \o <<"-">> \o Pad2(date.m)
      [] outfmt = "%Y-%m-%d" -> Pad4(date.y) \o <<"-">> \o Pad2(date.m)
                                \o <<"-">> \o Pad2(date.d)

----------------------------------------------------------------------------
(* Query objects: a Q is a conjunction, modelled as the sequence of its      *)
(* keyword dictionaries; a record matches when it satisfies every keyword  *)
(* of every dictionary.                                                    *)

\* Q with keyword arguments
Q(kwargs) == <<kwargs>>

\* a q &= other that folds the keywords of both sides into one dictionary,
\* so that a keyword given twice keeps its later value only
QAndReplacing(q, other) ==
    IF q = <<>> THEN other
    ELSE IF other = <<>> THEN q
    ELSE <<[k \in (DOMAIN q[1]) \cup (DOMAIN other[1]) |->
              IF k \in DOMAIN other[1] THEN other[1][k] ELSE q[1][k]]>>

\* q &= other: a Q is joined as a further conjunct; anything that is no Q
\* (the empty dict build_date_filters returns) leaves q as it is
QAnd(q, other) == q \o other

\* one pass of the loop of build_date_filters: the filter when infmt parses
\* the string, ValueError (caught, the loop goes on) when it does not
TryFormat(date, infmt) ==
    IF date.ok
    THEN [status |-> "ok",
          q |-> Q("election_id__contains" :>
                    Strftime(date, datefilter_formats[infmt]))]
    ELSE [status |-> "ValueError", q |-> <<>>]

\* for ... break ... else raise ValueError
FirstParsed(a, b, c) ==
    IF a.status = "ok" THEN a ELSE IF b.status = "ok" THEN b ELSE c

\* Roller.build_date_filters(datefilter), the format table iterated in `order`
BuildDateFilters(datefilter, order) ==
    IF datefilter = <<>> THEN [status |-> "ok", q |-> <<>>]
    ELSE FirstParsed(TryFormat(Strptime(datefilter, order[1]), order[1]),
                     TryFormat(Strptime(datefilter, order[2]), order[2]),
                     TryFormat(Strptime(datefilter, order[3]), order[3]))

----------------------------------------------------------------------------
(* Text constants *)

MD_ == <<"M","D">>

md_ == <<"m","d">>

MO_ == <<"M","O">>

COUNTY_ == <<"c","o","u","n","t","y">>

STATE_ == <<"s","t","a","t","e">>

PRECINCT_ == <<"p","r","e","c","i","n","c","t">>

BOGUS_ == <<"b","o","g","u","s">>

GENERAL_ == <<"g","e","n","e","r","a","l">>

E2012 == <<"m","d","-","2","0","1","2","-","1","1","-","0","6","-","g","e","n","e","r","a","l">>

E2010 == <<"m","d","-","2","0","1","0","-","0","9","-","1","4","-","p","r","i","m","a","r","y">>

D2012 == <<"@","2","0","1","2","-","1","1","-","0","6">>

D2010 == <<"@","2","0","1","0","-","0","9","-","1","4">>

Y2012 == <<"2","0","1","2">>

YM201211 == <<"2","0","1","2","1","1">>

ABCD_ == <<"a","b","c","d">>

\* no transform_field_names call
NoRecord == [coll |-> "", data |-> <<>>]

NotCalled == [status |-> "not called", q |-> <<>>]

----------------------------------------------------------------------------
(* Dictionaries are functions from keys to values *)

EmptyDict == [k \in {} |-> <<>>]

\* dict.update
Update(a, b) ==
    [k \in (DOMAIN a) \cup (DOMAIN b) |-> IF k \in DOMAIN b THEN b[k] ELSE a[k]]

\* dict.pop(key, None) for every key of keys
Without(d, keys) == [k \in (DOMAIN d) \ keys |-> d[k]]

Range(s) == {s[i] : i \in DOMAIN s}

\* the orders in which a dict or a set can yield the members of S
OrdersOf(S) ==
    {o \in [1..Cardinality(S) -> S] :
        \A i, j \in 1..Cardinality(S) : i # j => o[i] # o[j]}

----------------------------------------------------------------------------
(* The document models (openelex.models): collection name, ordered fields, *)
(* and which fields are references to which collection.                    *)

CollectionNames == {"contest", "candidate", "result"}

\* Roller.collections, by collection name
collections == <<"contest", "candidate", "result">>

\* Roller.primary_collection
primary_collection == "result"

fields_ordered(coll) ==
    CASE coll = "contest" ->
           <<"_id", "updated", "source", "election_id", "slug", "state",
             "start_date", "office">>
      [] coll = "candidate" ->
           <<"_id", "updated", "source", "election_id", "state", "contest",
             "contest_slug", "slug", "given_name", "family_name",
             "additional_name">>
      [] coll = "result" ->
           <<"_id", "updated", "source", "election_id", "state", "contest",
             "contest_slug", "candidate", "candidate_slug", "ocd_id",
             "total_votes", "reporting_level", "raw_result">>

\* ReferenceField declarations: <<collection, field>> -> target collection
reference_fields ==
    (<<"candidate", "contest">> :> "contest")
    @@ (<<"result", "contest">> :> "contest")
    @@ (<<"result", "candidate">> :> "candidate")

\* Result.REPORTING_LEVEL_CHOICES
REPORTING_LEVEL_CHOICES ==
    {COUNTY_, STATE_, PRECINCT_}

----------------------------------------------------------------------------
(* The declarations of the Roller class body and what RollerMeta.__new__   *)
(* collects from them                                                      *)

\* the FieldNameTransform attributes: attribute name, document, field,
\* output_name ("" when not given)
transform_declarations ==
    { [k |-> "election_id", doc |-> "result",    field |-> "election_id",     output_name |-> "id"],
      [k |-> "first_name",  doc |-> "candidate", field |-> "given_name",      output_name |-> ""],
      [k |-> "last_name",   doc |-> "candidate", field |-> "family_name",     output_name |-> ""],
      [k |-> "middle_name", doc |-> "candidate", field |-> "additional_name", output_name |-> ""],
      [k |-> "votes",       doc |-> "result",    field |-> "total_votes",     output_name |-> ""],
      [k |-> "division",    doc |-> "result",    field |-> "ocd_id",          output_name |-> ""],
      [k |-> "updated_at",  doc |-> "contest",   field |-> "updated",         output_name |-> ""] }

\* RollerMeta.__new__: field_name_transforms[collection][db_field] = output name
field_name_transforms ==
    [coll \in {v.doc : v \in transform_declarations} |->
        [f \in {v.field : v \in {w \in transform_declarations : w.doc = coll}} |->
            LET v == CHOOSE w \in transform_declarations :
                         w.doc = coll /\ w.field = f
            IN  IF v.output_name # "" THEN v.output_name ELSE v.k]]

\* RollerMeta.__new__: the CalculatedField attributes
calculated_fields_ordered == <<"year">>

\* Roller.excluded_fields
excluded_fields ==
    ("result" :> {"candidate_slug", "contest_slug", "raw_result"})
    @@ ("candidate" :> {"contest", "contest_slug", "election_id", "parties",
                        "source", "slug"})
    @@ ("contest" :> {"election_id", "party", "source", "slug"})

VOTES1000 == <<"1","0","0","0">>

VOTES900 == <<"9","0","0">>

VOTES888 == <<"8","8","8">>

VOTES1999 == <<"1","9","9","9">>

----------------------------------------------------------------------------
(* The store.  An ObjectId is text that starts with "#", a date is text    *)
(* that starts with "@"; every other value is plain text.                  *)

\* str(ObjectId): the identifier's text
Str(v) == IF Len(v) > 0 /\ v[1] = "#" THEN Tail(v) ELSE v

\* datetime.year
Year(v) == SubSeq(v, 2, 5)

Oid(a, b) == <<"#", a, b>>

ContestDoc(n, election_id, start_date) ==
    [_id |-> Oid("c", n), updated |-> <<"u", "c", n>>, source |-> <<"s", "c">>,
     election_id |-> election_id, slug |-> <<"p", n>>, state |-> MD_,
     start_date |-> start_date, office |-> <<"o", n>>]

CandidateDoc(n, election_id, contest, extra) ==
    Update([_id |-> Oid("a", n), updated |-> <<"u", "a", n>>,
            source |-> <<"s", "a">>, election_id |-> election_id,
            state |-> MD_, contest |-> contest, contest_slug |-> <<"p">>,
            slug |-> <<"k", n>>, given_name |-> <<"g", n>>,
            family_name |-> <<"f", n>>, additional_name |-> <<"x", n>>],
           extra)

ResultDoc(state, election_id, candidate, contest, votes, level, extra) ==
    Update([updated |-> <<"u", "r">>, source |-> <<"s", "r">>,
            election_id |-> election_id, state |-> state,
            contest |-> contest, contest_slug |-> <<"p">>,
            candidate |-> candidate, candidate_slug |-> <<"k">>,
            ocd_id |-> <<"o", "c", "d">>, total_votes |-> votes,
            reporting_level |-> level, raw_result |-> <<"r", "a", "w">>],
           extra)

\* Contest and Candidate records of the store: a 2012 general election
\* contest with two candidates and a 2010 primary contest with one.  The
\* second candidate carries ad hoc fields (the store is schemaless).
StoredContests ==
    <<ContestDoc("1", E2012, D2012), ContestDoc("2", E2010, D2010)>>

StoredCandidates ==
    <<CandidateDoc("1", E2012, Oid("c", "1"), EmptyDict),
      CandidateDoc("2", E2012, Oid("c", "1"),
                   ("nickname" :> <<"n">>) @@ ("year" :> VOTES888)),
      CandidateDoc("3", E2010, Oid("c", "2"), EmptyDict)>>

\* The Result records a store may hold (without their _id)
ResultKinds ==
    { \* a county result of the first candidate
      ResultDoc(MD_, E2012, Oid("a", "1"), Oid("c", "1"), VOTES1000, COUNTY_,
                EmptyDict),
      \* a state result of the second candidate, with ad hoc fields
      ResultDoc(MD_, E2012, Oid("a", "2"), Oid("c", "1"), VOTES900, STATE_,
                ("extra" :> <<"e">>) @@ ("year" :> VOTES1999)
                @@ ("start_date" :> D2010)),
      \* a result of the 2010 primary
      ResultDoc(MD_, E2010, Oid("a", "3"), Oid("c", "2"), VOTES900, COUNTY_,
                EmptyDict),
      \* a 2012 result whose contest is the 2010 one
      ResultDoc(MD_, E2012, Oid("a", "1"), Oid("c", "2"), VOTES900, COUNTY_,
                EmptyDict),
      \* a result of another state
      ResultDoc(MO_, E2012, Oid("a", "1"), Oid("c", "1"), VOTES1000, COUNTY_,
                EmptyDict) }

WithId(doc, i) == Update(doc, [_id |-> Oid("r", DigitChar(i))])

\* the store of the end-to-end scenario: one Contest, two Candidates of it
\* and one Result of each Candidate, with 1000 and 900 votes
ScenarioStore ==
    [contest   |-> <<ContestDoc("1", E2012, D2012)>>,
     candidate |-> <<CandidateDoc("1", E2012, Oid("c", "1"), EmptyDict),
                     CandidateDoc("2", E2012, Oid("c", "1"), EmptyDict)>>,
     result    |-> <<WithId(ResultDoc(MD_, E2012, Oid("a", "1"), Oid("c", "1"),
                                      VOTES1000, COUNTY_, EmptyDict), 1),
                     WithId(ResultDoc(MD_, E2012, Oid("a", "2"), Oid("c", "1"),
                                      VOTES900, COUNTY_, EmptyDict), 2)>>]

Stores ==
    { [contest |-> StoredContests, candidate |-> StoredCandidates,
       result |-> [i \in 1..Len(rs) |-> WithId(rs[i], i)]] :
         rs \in UNION {[1..n -> ResultKinds] : n \in 0..MaxResults} }
    \cup {ScenarioStore}

----------------------------------------------------------------------------
(* Querysets: the predicate and the projection a collection handle has     *)
(* accumulated; nothing is read from the store before it is iterated.      *)

\* Document.objects
Objects == [q |-> <<>>, exclude |-> {}]

\* the field and the operator a query keyword names
MatchKey(rec, key, v) ==
    CASE key = "state" ->
           "state" \in DOMAIN rec /\ rec["state"] = v
      [] key = "reporting_level" ->
           "reporting_level" \in DOMAIN rec /\ rec["reporting_level"] = v
      [] key = "election_id__contains" ->
           "election_id" \in DOMAIN rec /\ Contains(rec["election_id"], v)

Matches(rec, q) ==
    \A i \in DOMAIN q : \A key \in DOMAIN q[i] : MatchKey(rec, key, q[i][key])

\* queryset.as_pymongo(), iterated: the matching records in the store's
\* order, as plain dictionaries without the excluded fields
Iterate(docs, qs) ==
    LET Test(rec) == Matches(rec, qs.q)
        hits      == SelectSeq(docs, Test)
    IN  [i \in 1..Len(hits) |-> Without(hits[i], qs.exclude)]

----------------------------------------------------------------------------
(* Roller.__init__ *)

\* Roller._is_relationship_field
is_relationship_field(coll, field) == <<coll, field>> \in DOMAIN reference_fields

\* Roller._transform_field_name
transform_field_name(collection_name, field_name) ==
    IF collection_name \in DOMAIN field_name_transforms
       /\ field_name \in DOMAIN field_name_transforms[collection_name]
    THEN field_name_transforms[collection_name][field_name]
    ELSE field_name

\* the excluded field set _contribute_fields builds for a collection
excluded_field_set(coll) ==
    (IF coll \in DOMAIN excluded_fields THEN excluded_fields[coll] ELSE {})
    \cup {"_id"}

\* Roller._contribute_fields: the names the collection adds to _output_fields
contributed_fields(coll) ==
    LET is_primary == coll = primary_collection
        Kept(f)    == /\ f \notin excluded_field_set(coll)
                      /\ ~(is_primary /\ is_relationship_field(coll, f))
        kept       == SelectSeq(fields_ordered(coll), Kept)
    IN  [i \in 1..Len(kept) |-> transform_field_name(coll, kept[i])]

\* Roller._contribute_fields: the relationships the primary collection adds
contributed_relationships ==
    LET coll == primary_collection
        refs == {f \in Range(fields_ordered(coll)) :
                    /\ f \notin excluded_field_set(coll)
                    /\ is_relationship_field(coll, f)}
    IN  [f \in refs |-> reference_fields[<<coll, f>>]]

Unset == [set |-> FALSE, v |-> <<>>]

Set(v) == [set |-> TRUE, v |-> v]

\* Roller(): the state after __init__
NewRoller ==
    [querysets     |-> [c \in Range(collections) |-> Objects],
     relationships |-> contributed_relationships,
     output_fields |-> contributed_fields(collections[1])
                       \o contributed_fields(collections[2])
                       \o contributed_fields(collections[3])
                       \o calculated_fields_ordered,
     fields        |-> Unset,
     items         |-> Unset]

----------------------------------------------------------------------------
(* Roller.build_filters *)

\* Roller.build_filters_result: a Q, or None (no conjunct)
build_filters_result(filter_kwargs) ==
    IF "reporting_level" \in DOMAIN filter_kwargs
    THEN Q("reporting_level" :> filter_kwargs["reporting_level"])
    ELSE <<>>

\* the q_kwargs dictionary of build_filters
q_kwargs(filter_kwargs) ==
    ("state" :> Upper(filter_kwargs["state"]))
    @@ (IF "election_type" \in DOMAIN filter_kwargs
        THEN ("election_id__contains" :> filter_kwargs["election_type"])
        ELSE EmptyDict)

\* a per-collection Q that every collection is given
CollectionQShared(collection_name, filter_kwargs) ==
    build_filters_result(filter_kwargs)

\* getattr(self, 'build_filters_' + collection_name)(filter_kwargs), or no
\* conjunct when the Roller has no such method (AttributeError)
CollectionQ(collection_name, filter_kwargs) ==
    IF collection_name = "result"
    THEN build_filters_result(filter_kwargs)
    ELSE <<>>

\* the filters of build_filters, given what build_date_filters returned.
\* common_q & collection_q is a new Q each time, so that the order in which
\* the dict yields the collections has no bearing on the filters.
FiltersWith(filter_kwargs, date) ==
    [status  |-> date.status,
     filters |-> [c \in Range(collections) |->
                    QAnd(QAnd(Q(q_kwargs(filter_kwargs)), date.q),
                         CollectionQ(c, filter_kwargs))]]

\* Roller.build_filters: the Q of every collection, or the ValueError of
\* build_date_filters
build_filters(filter_kwargs, order) ==
    FiltersWith(filter_kwargs,
                IF "datefilter" \in DOMAIN filter_kwargs
                THEN BuildDateFilters(filter_kwargs["datefilter"], order)
                ELSE [status |-> "ok", q |-> <<>>])

\* filters applied, and no field left out of any queryset
apply_filters_only(querysets, filters) ==
    [c \in DOMAIN querysets |->
        [q       |-> IF c \in DOMAIN filters /\ filters[c] # <<>>
                     THEN QAnd(querysets[c].q, filters[c])
                     ELSE querysets[c].q,
         exclude |-> querysets[c].exclude]]

\* Roller.apply_filters followed by Roller.apply_field_limits with the
\* dictionaries of build_fields (nothing to include) and build_exclude_fields
apply_filters_and_limits(querysets, filters) ==
    [c \in DOMAIN querysets |->
        [q       |-> IF c \in DOMAIN filters /\ filters[c] # <<>>
                     THEN QAnd(querysets[c].q, filters[c])
                     ELSE querysets[c].q,
         exclude |-> IF c \in DOMAIN excluded_fields
                     THEN querysets[c].exclude \cup excluded_fields[c]
                     ELSE querysets[c].exclude]]

\* the store operations apply_filters and apply_field_limits perform
LimitOps ==
    <<<<"filter", "contest">>, <<"filter", "candidate">>, <<"filter", "result">>,
      <<"exclude", "contest">>, <<"exclude", "candidate">>, <<"exclude", "result">>,
      <<"only", "contest">>, <<"only", "candidate">>, <<"only", "result">>>>

----------------------------------------------------------------------------
(* Roller.flatten *)

\* a rename that copies the value and leaves the old name in place
TransformOneCopy(data, old_name, new_name) ==
    IF old_name \in DOMAIN data
    THEN Update(data, new_name :> data[old_name])
    ELSE data

\* a rename that deletes the old name and stores nothing under the new one
TransformOneDrop(data, old_name, new_name) == Without(data, {old_name})

\* a rename that, where the old name is gone, takes the new one away too
TransformOneOnce(data, old_name, new_name) ==
    IF old_name \in DOMAIN data
    THEN Update(Without(data, {old_name}), new_name :> data[old_name])
    ELSE Without(data, {new_name})

\* one pass of the loop of transform_field_names: data[new_name] =
\* data[old_name]; del data[old_name] (KeyError: the name is left out)
TransformOne(data, old_name, new_name) ==
    IF old_name \in DOMAIN data
    THEN Update(Without(data, {old_name}), new_name :> data[old_name])
    ELSE data

RECURSIVE ApplyTransforms(_, _, _)
ApplyTransforms(data, transforms, todo) ==
    IF todo = {} THEN data
    ELSE LET old_name == CHOOSE o \in todo : TRUE
         IN  ApplyTransforms(TransformOne(data, old_name, transforms[old_name]),
                             transforms, todo \ {old_name})

\* Roller.transform_field_names
transform_field_names(data, transforms) ==
    ApplyTransforms(data, transforms, DOMAIN transforms)

\* field_name_transforms.get(name), then transform_field_names if any
Renamed(data, name) ==
    IF name \in DOMAIN field_name_transforms
    THEN transform_field_names(data, field_name_transforms[name])
    ELSE data

\* no field is calculated
get_calculated_fields_none(data) == EmptyDict

\* Roller.get_calculated_fields: year = d['start_date'].year
get_calculated_fields(data) == ("year" :> Year(data["start_date"]))

\* the related records as flatten leaves them (it changes them in place)
FlattenRelated(related) ==
    [name \in DOMAIN related |-> Renamed(Without(related[name], {"_id"}), name)]

RECURSIVE MergeRelated(_, _, _)
MergeRelated(flat, related, order) ==
    IF order = <<>> THEN flat
    ELSE MergeRelated(Update(flat, related[Head(order)]), related, Tail(order))

\* a merge in which the related records are applied after the primary one
MergedRelatedLast(primary, related, relationships, order) ==
    MergeRelated(Renamed(Without(primary, {"_id"} \cup DOMAIN relationships),
                         primary_collection),
                 FlattenRelated(related), order)

\* a merge that leaves the identifier and the reference fields in the row
MergedKeepingIds(primary, related, relationships, order) ==
    Update(MergeRelated(EmptyDict, FlattenRelated(related), order),
           Renamed(primary, primary_collection))

\* the row before the calculated fields are applied; related.items() yields
\* the related records in `order`
Merged(primary, related, relationships, order) ==
    LET stripped == Without(primary, {"_id"} \cup DOMAIN relationships)
        own      == Renamed(stripped, primary_collection)
    IN  Update(MergeRelated(EmptyDict, FlattenRelated(related), order), own)

\* a flatten that calculates from the related records alone and merges the
\* primary record last
flatten_calculated_early(primary, related, relationships, order) ==
    LET early == MergeRelated(EmptyDict, FlattenRelated(related), order)
        own   == Renamed(Without(primary, {"_id"} \cup DOMAIN relationships),
                         primary_collection)
    IN  IF "start_date" \in DOMAIN early
        THEN [status |-> "ok",
              flat |-> Update(Update(early, get_calculated_fields(early)), own)]
        ELSE [status |-> "KeyError", flat |-> early]

\* Roller.flatten
flatten(primary, related, relationships, order) ==
    LET flat == Merged(primary, related, relationships, order)
    IN  IF "start_date" \in DOMAIN flat
        THEN [status |-> "ok", flat |-> Update(flat, get_calculated_fields(flat))]
        ELSE [status |-> "KeyError", flat |-> flat]

----------------------------------------------------------------------------
(* Roller.get_list and Roller.get_fields *)

\* OrderedSet(seq): the members of seq in the order of their first occurrence
OrderedSet(seq) ==
    LET First(i) == \A j \in 1..(i - 1) : seq[j] # seq[i]
        keep     == {i \in 1..Len(seq) : First(i)}
        Rank(i)  == Cardinality({j \in keep : j <= i})
    IN  [n \in 1..Cardinality(keep) |->
            seq[CHOOSE i \in keep : Rank(i) = n]]

\* Roller.get_fields
get_fields(r) == IF r.fields.set THEN r.fields.v ELSE r.output_fields

\* the filtered primary records, in the store's order
PrimaryRows == Iterate(store[primary_collection], roller.querysets[primary_collection])

\* {str(c['_id']): c for c in queryset.as_pymongo()}
IdMap(docs) ==
    [k \in {Str(docs[i]["_id"]) : i \in 1..Len(docs)} |->
        docs[CHOOSE i \in 1..Len(docs) :
                /\ Str(docs[i]["_id"]) = k
                /\ \A j \in (i + 1)..Len(docs) : Str(docs[j]["_id"]) # k]]

\* related_map[coll][str(primary[fname])] can be looked up
CanResolve(rmap, primary, fname, coll) ==
    /\ coll \in DOMAIN rmap
    /\ fname \in DOMAIN primary
    /\ Str(primary[fname]) \in DOMAIN rmap[coll]

----------------------------------------------------------------------------
(* The Baker *)

\* Baker.timestamp_format, "%Y%m%dT%H%M%S", applied by strftime
TimestampText(ts) ==
    Pad4(ts.y) \o Pad2(ts.m) \o Pad2(ts.d) \o <<"T">>
    \o Pad2(ts.H) \o Pad2(ts.M) \o Pad2(ts.S)

\* Baker.filename
filename(kwargs, fmt, timestamp) ==
    Lower(kwargs["state"]) \o <<"_">> \o TimestampText(timestamp) \o <<".">> \o fmt

\* Baker.manifest_filename
manifest_filename(kwargs, timestamp) ==
    Lower(kwargs["state"]) \o <<"_">> \o TimestampText(timestamp)
    \o <<"_", "m", "a", "n", "i", "f", "e", "s", "t", ".", "t", "x", "t">>

\* Baker.__init__
NewBaker(filter_kwargs) ==
    [filter_kwargs |-> filter_kwargs, items |-> Unset, fields |-> Unset]

NoOutput == [kind |-> "none", name |-> <<>>, header |-> <<>>, body |-> <<>>,
             mkdir |-> FALSE]

\* str(value) as csv.DictWriter writes it
CsvText(v) ==
    IF Len(v) > 0 /\ v[1] = "@"
    THEN Tail(v) \o <<" ", "0", "0", ":", "0", "0", ":", "0", "0">>
    ELSE Str(v)

\* a writerow that writes the cells of the keys the row has and no others
CsvRowPresentOnly(fieldnames, row) ==
    LET Has(f) == f \in DOMAIN row
        present == SelectSeq(fieldnames, Has)
    IN  [i \in 1..Len(present) |-> CsvText(row[present[i]])]

\* DictWriter.writerow: the cells in the header's order, "" for a missing key
CsvRow(fieldnames, row) ==
    [i \in 1..Len(fieldnames) |->
        IF fieldnames[i] \in DOMAIN row THEN CsvText(row[fieldnames[i]]) ELSE <<>>]

\* the rows DictWriter accepts before the first row with a key that is no
\* fieldname (extrasaction is 'raise')
CsvAccepted(fieldnames, items) ==
    LET bad == {i \in 1..Len(items) : ~(DOMAIN items[i] \subseteq Range(fieldnames))}
    IN  IF bad = {} THEN Len(items)
        ELSE (CHOOSE i \in bad : \A j \in bad : i <= j) - 1

\* a dump that writes str(value) for what json cannot write
JsonTextStr(v) == CsvText(v)

\* json.dumps(value, default=json_util.default): dates and ObjectIds become
\* their extended-JSON text
JsonText(v) ==
    IF Len(v) > 0 /\ v[1] = "@" THEN <<"$", "d", "a", "t", "e", ":">> \o Tail(v)
    ELSE IF Len(v) > 0 /\ v[1] = "#" THEN <<"$", "o", "i", "d", ":">> \o Tail(v)
    ELSE v

\* Baker.write_csv: the file written and the error raised
write_csv(b, timestamp) ==
    LET name == filename(b.filter_kwargs, <<"c", "s", "v">>, timestamp)
    IN  IF ~b.fields.set
        THEN [err |-> "AttributeError",
              out |-> [kind |-> "file", name |-> name, header |-> <<>>,
                       body |-> <<>>, mkdir |-> TRUE]]
        ELSE LET n == CsvAccepted(b.fields.v, b.items.v)
             IN  [err |-> IF n = Len(b.items.v) THEN "none" ELSE "ValueError",
                  out |-> [kind |-> "file", name |-> name,
                           header |-> b.fields.v,
                           body |-> [i \in 1..n |-> CsvRow(b.fields.v, b.items.v[i])],
                           mkdir |-> TRUE]]

\* Baker.write_json
write_json(b, timestamp) ==
    LET name == filename(b.filter_kwargs, <<"j", "s", "o", "n">>, timestamp)
    IN  IF ~b.items.set
        THEN [err |-> "AttributeError",
              out |-> [kind |-> "file", name |-> name, header |-> <<>>,
                       body |-> <<>>, mkdir |-> TRUE]]
        ELSE [err |-> "none",
              out |-> [kind |-> "file", name |-> name, header |-> <<>>,
                       body |-> [i \in 1..Len(b.items.v) |->
                                   [k \in DOMAIN b.items.v[i] |->
                                       JsonText(b.items.v[i][k])]],
                       mkdir |-> TRUE]]

\* a manifest that is written from the collected items' Baker only
write_manifest_of_items(b, timestamp) ==
    IF b.items.set
    THEN [err |-> "none",
          out |-> [kind |-> "file", name |-> manifest_filename(b.filter_kwargs, timestamp),
                   header |-> <<"G", "e", "n", "e", "r", "a", "t", "e", "d", " ", "o", "n", " ">>
                              \o TimestampText(timestamp),
                   body |-> {<<k, b.filter_kwargs[k]>> : k \in DOMAIN b.filter_kwargs},
                   mkdir |-> TRUE]]
    ELSE [err |-> "AttributeError", out |-> NoOutput]

\* Baker.write_manifest: the timestamp line, and one line per filter (in the
\* order of the dict, which the set leaves open)
write_manifest(b, timestamp) ==
    [err |-> "none",
     out |-> [kind |-> "file", name |-> manifest_filename(b.filter_kwargs, timestamp),
              header |-> <<"G", "e", "n", "e", "r", "a", "t", "e", "d", " ", "o", "n", " ">>
                         \o TimestampText(timestamp),
              body |-> {<<k, b.filter_kwargs[k]>> : k \in DOMAIN b.filter_kwargs},
              mkdir |-> TRUE]]

\* Baker.write: getattr(self, 'write_' + fmt), then the method
write(b, fmt, timestamp) ==
    CASE fmt = <<"c", "s", "v">> -> write_csv(b, timestamp)
      [] fmt = <<"j", "s", "o", "n">> -> write_json(b, timestamp)
      [] fmt = <<"m", "a", "n", "i", "f", "e", "s", "t">> -> write_manifest(b, timestamp)
      [] OTHER -> [err |-> "UnsupportedFormatError", out |-> NoOutput]

----------------------------------------------------------------------------
(* The inputs *)

OptDict(key, values) == {EmptyDict} \cup {key :> v : v \in values}

\* a datefilter of None (or '') is the empty text
DateFilters == {<<>>, Y2012, YM201211, ABCD_}

Criteria ==
    { ("state" :> md_) @@ d : d \in OptDict("datefilter", DateFilters) }
    \cup { ("state" :> md_) @@ ("reporting_level" :> r) @@ d :
             r \in {COUNTY_, BOGUS_}, d \in OptDict("datefilter", {Y2012}) }
    \cup { ("state" :> md_) @@ ("election_type" :> GENERAL_) @@ d :
             d \in OptDict("datefilter", {Y2012}) }
    \cup {("state" :> MD_)}

Timestamps ==
    { [y |-> 2014, m |-> 3, d |-> 9, H |-> 7, M |-> 5, S |-> 1] }

Formats ==
    { <<"c", "s", "v">>, <<"j", "s", "o", "n">>, <<"x", "m", "l">>,
      <<"m", "a", "n", "i", "f", "e", "s", "t">> }

----------------------------------------------------------------------------
(* The state after the Baker has been constructed *)

Init ==
    /\ store \in Stores
    /\ baker \in {NewBaker(c) : c \in Criteria}
    /\ roller = NewRoller
    /\ pc = "idle"
    /\ idx = 0
    /\ rel_order = <<>>
    /\ related_map = EmptyDict
    /\ origin = <<>>
    /\ last = "__init__"
    /\ err = "none"
    /\ out = NoOutput
    /\ log = <<>>
    /\ nq = 0
    /\ runs = 0
    /\ dateIn = <<>>
    /\ dateOut = NotCalled
    /\ nameIn = <<>>
    /\ nameOut = <<>>
    /\ recIn = NoRecord
    /\ recOut = NoRecord
    /\ calls = <<>>

\* new names put at the front of the field list
UnionFieldsFront(fields, added) == added \o fields

\* a field list that is never extended
UnionFieldsKept(fields, added) == fields

\* self._fields |= flat.keys(): the names not yet in the set are added at
\* its end, in the order `added` in which the dict yields them
UnionFields(fields, added) == fields \o added

\* a collect_items that filters and limits the querysets before it looks at
\* what build_date_filters made of the date
CollectWithLate(built) ==
    /\ roller' = [NewRoller EXCEPT
           !.querysets = apply_filters_and_limits(@, built.filters),
           !.fields = IF built.status = "ok"
                      THEN Set(OrderedSet(NewRoller.output_fields)) ELSE Unset]
    /\ log' = LimitOps
    /\ err' = IF built.status = "ok" THEN "none" ELSE built.status
    /\ pc' = IF built.status = "ok" THEN "join" ELSE "idle"

\* Baker.collect_items from Roller() to the OrderedSet of the predicted
\* fields, given what build_filters returned
CollectWith(built) ==
    IF built.status # "ok"
    THEN /\ roller' = NewRoller
         /\ log' = <<>>
         /\ err' = built.status
         /\ pc' = "idle"
    ELSE /\ roller' = [NewRoller EXCEPT
               !.querysets = apply_filters_and_limits(@, built.filters),
               !.fields = Set(OrderedSet(NewRoller.output_fields))]
         /\ log' = LimitOps
         /\ err' = "none"
         /\ pc' = "join"

\* Baker.collect_items, up to the first store query: Roller(), then
\* get_list's build_filters, apply_filters, apply_field_limits and the
\* OrderedSet of the predicted fields.  build_filters may raise.
CollectItems ==
    /\ pc = "idle"
    /\ runs < MaxRuns
    /\ runs' = runs + 1
    /\ last' = "collect_items"
    /\ \E fmt_order \in FormatOrders :
         CollectWith(build_filters(baker.filter_kwargs, fmt_order))
    /\ idx' = 0
    /\ rel_order' = <<>>
    /\ related_map' = EmptyDict
    /\ origin' = <<>>
    /\ out' = NoOutput
    /\ UNCHANGED <<store, baker, nq, dateIn, dateOut, nameIn, nameOut, recIn, recOut, calls>>

\* get_list: the related collections are read into related_map (the
\* relationships dict yields them in the order o), _items is emptied and
\* the primary queryset is opened
BuildRelatedMap ==
    /\ pc = "join"
    /\ related_map' =
         [fname \in DOMAIN roller.relationships |->
            IdMap(Iterate(store[roller.relationships[fname]],
                          roller.querysets[roller.relationships[fname]]))]
    /\ roller' = [roller EXCEPT !.items = Set(<<>>)]
    /\ \E o \in OrdersOf(DOMAIN roller.relationships) :
         /\ rel_order' = o
         /\ log' = log \o [i \in 1..Len(o) |-> <<"iterate", roller.relationships[o[i]]>>]
                       \o <<<<"iterate", primary_collection>>>>
         /\ nq' = nq + Len(o) + 1
    /\ idx' = 1
    /\ pc' = "loop"
    /\ UNCHANGED <<store, baker, origin, last, err, out, runs, dateIn, dateOut, nameIn, nameOut, recIn, recOut, calls>>

\* a lookup that leaves the record out of the rows and goes on
LookupSkips ==
    /\ idx' = idx + 1
    /\ UNCHANGED <<store, roller, related_map, origin, err, pc, rel_order>>

\* the lookup related_map[coll][str(primary[fname])] raises KeyError, which
\* leaves get_list and collect_items
LookupFails ==
    /\ err' = "KeyError"
    /\ pc' = "idle"
    /\ idx' = 0
    /\ rel_order' = <<>>
    /\ UNCHANGED <<store, roller, related_map, origin>>

\* the related records of a primary record
RelatedOf(primary) ==
    [fname \in DOMAIN roller.relationships |->
        related_map[roller.relationships[fname]][Str(primary[fname])]]

\* related_map after flatten has changed the records of `related` in place
Touched(primary, related) ==
    [coll \in DOMAIN related_map |->
        [k \in DOMAIN related_map[coll] |->
            IF \E fname \in DOMAIN related :
                  roller.relationships[fname] = coll /\ Str(primary[fname]) = k
            THEN FlattenRelated(related)
                   [CHOOSE fname \in DOMAIN related :
                       roller.relationships[fname] = coll /\ Str(primary[fname]) = k]
            ELSE related_map[coll][k]]]

\* rows collected newest first
AppendItemFirst(items, flat) == <<flat>> \o items

\* a store whose records are the very dictionaries flatten changes
StoreSharing(rmap) ==
    [c \in DOMAIN store |->
        [j \in 1..Len(store[c]) |->
            IF c \in DOMAIN rmap /\ Str(store[c][j]["_id"]) \in DOMAIN rmap[c]
            THEN Update(rmap[c][Str(store[c][j]["_id"])],
                        [_id |-> store[c][j]["_id"]])
            ELSE store[c][j]]]

\* the store once flatten has changed the dictionaries of rmap in place:
\* as_pymongo() yields dictionaries of its own, nothing is saved, and the
\* store's records are what they were
StoreAfter(rmap) == store

\* a loop that queries the related collections for every primary record
LoopLogPerRow(l) ==
    l \o [i \in 1..Len(rel_order) |-> <<"iterate", roller.relationships[rel_order[i]]>>]

\* the store operations once a pass of the loop is over: the related
\* records come out of related_map, a dictionary, and the pass adds none
LoopLog(l) == l

\* a Baker that holds the Roller's list and field set while they grow
BakerSharing(b) == [b EXCEPT !.items = roller'.items, !.fields = roller'.fields]

\* the Baker while get_list runs, and when it raises: collect_items assigns
\* _items and _fields only from what get_list and get_fields return
BakerDuring(b) == b

\* self._items.append(flat)
AppendItem(items, flat) == Append(items, flat)

\* flatten, then the row's keys join _fields and the row joins _items
FlattenRow(primary, row) ==
    IF row.status # "ok"
    THEN /\ err' = row.status
         /\ pc' = "idle"
         /\ idx' = 0
         /\ rel_order' = <<>>
         /\ UNCHANGED <<roller, origin>>
    ELSE /\ \E added \in OrdersOf((DOMAIN row.flat) \ Range(roller.fields.v)) :
              roller' = [roller EXCEPT
                  !.fields = Set(UnionFields(roller.fields.v, added)),
                  !.items = Set(AppendItem(roller.items.v, row.flat))]
         /\ origin' = Append(origin,
               ("result" :> Str(primary["_id"]))
               @@ [fname \in DOMAIN roller.relationships |-> Str(primary[fname])])
         /\ idx' = idx + 1
         /\ UNCHANGED <<err, pc, rel_order>>

\* get_list: one pass of the loop over the primary queryset
FlattenNext ==
    /\ pc = "loop"
    /\ idx <= Len(PrimaryRows)
    /\ IF \E fname \in DOMAIN roller.relationships :
             ~CanResolve(related_map, PrimaryRows[idx], fname,
                         roller.relationships[fname])
       THEN LookupFails
       ELSE /\ FlattenRow(PrimaryRows[idx],
                          flatten(PrimaryRows[idx], RelatedOf(PrimaryRows[idx]),
                                  roller.relationships, rel_order))
            /\ related_map' = Touched(PrimaryRows[idx], RelatedOf(PrimaryRows[idx]))
            /\ store' = StoreAfter(Touched(PrimaryRows[idx],
                                           RelatedOf(PrimaryRows[idx])))
    /\ log' = LoopLog(log)
    /\ baker' = BakerDuring(baker)
    /\ out' = NoOutput
    /\ UNCHANGED <<last, nq, runs, dateIn, dateOut, nameIn, nameOut, recIn, recOut, calls>>

\* get_list returns _items; collect_items stores them and get_fields()
Collected ==
    /\ pc = "loop"
    /\ idx > Len(PrimaryRows)
    /\ baker' = [baker EXCEPT !.items = Set(roller.items.v),
                              !.fields = Set(get_fields(roller))]
    /\ out' = [NoOutput EXCEPT !.kind = "items", !.body = roller.items.v]
    /\ pc' = "idle"
    /\ idx' = 0
    /\ rel_order' = <<>>
    /\ UNCHANGED <<store, roller, related_map, origin, last, err, log, nq, runs,
                   dateIn, dateOut, nameIn, nameOut, recIn, recOut, calls>>

\* what a write leaves behind
Wrote(w) ==
    /\ err' = w.err
    /\ out' = w.out

\* Baker.write(fmt, outputdir, timestamp)
Write ==
    /\ pc = "idle"
    /\ last' = "write"
    /\ \E fmt \in Formats, timestamp \in Timestamps :
         Wrote(write(baker, fmt, timestamp))
    /\ UNCHANGED <<store, baker, roller, pc, idx, rel_order, related_map,
                   origin, log, nq, runs, dateIn, dateOut, nameIn, nameOut, recIn, recOut, calls>>

\* Baker.write_manifest(outputdir, timestamp)
WriteManifest ==
    /\ pc = "idle"
    /\ last' = "write_manifest"
    /\ \E timestamp \in Timestamps :
         Wrote(write_manifest(baker, timestamp))
    /\ UNCHANGED <<store, baker, roller, pc, idx, rel_order, related_map,
                   origin, log, nq, runs, dateIn, dateOut, nameIn, nameOut, recIn, recOut, calls>>

Next ==
    \/ CollectItems
    \/ BuildRelatedMap
    \/ FlattenNext
    \/ Collected
    \/ Write
    \/ WriteManifest

Spec == Init /\ [][Next]_vars

----------------------------------------------------------------------------
(* build_date_filters on its own, over every short string *)

DateAlphabet == {"0", "1", "2", "a"}

DateStrings == UNION {[1..n -> DateAlphabet] : n \in 0..MaxLen}

InitDate ==
    /\ store = [contest |-> StoredContests, candidate |-> StoredCandidates,
                result |-> <<>>]
    /\ baker = NewBaker("state" :> md_)
    /\ roller = NewRoller
    /\ pc = "idle"
    /\ idx = 0
    /\ rel_order = <<>>
    /\ related_map = EmptyDict
    /\ origin = <<>>
    /\ last = "__init__"
    /\ err = "none"
    /\ out = NoOutput
    /\ log = <<>>
    /\ nq = 0
    /\ runs = 0
    /\ dateIn \in DateStrings
    /\ dateOut = NotCalled
    /\ nameIn = <<>>
    /\ nameOut = <<>>
    /\ recIn = NoRecord
    /\ recOut = NoRecord
    /\ calls = <<>>

\* roller.build_date_filters(dateIn), under any order of the format table
CallBuildDateFilters ==
    /\ dateOut = NotCalled
    /\ \E fmt_order \in FormatOrders :
         dateOut' = BuildDateFilters(dateIn, fmt_order)
    /\ UNCHANGED <<store, baker, roller, pc, idx, rel_order, related_map,
                   origin, last, err, out, log, nq, runs, dateIn,
                   nameIn, nameOut, recIn, recOut, calls>>

NextDate == CallBuildDateFilters

SpecDate == InitDate /\ [][NextDate]_vars

----------------------------------------------------------------------------
(* Baker.filename and Baker.manifest_filename on their own, for two writes *)

NameStates == {md_, MD_, MO_}

\* timestamps (datetime values, with their microseconds)
NameTimestamps ==
    [y : {2014}, m : {1, 11}, d : {1, 11}, H : {7}, M : {5}, S : {1, 2},
     us : {0, 5}]

NameFormats == { <<"c", "s", "v">>, <<"j", "s", "o", "n">> }

NameInputs == [state : NameStates, timestamp : NameTimestamps, fmt : NameFormats]

InitNames ==
    /\ store = [contest |-> StoredContests, candidate |-> StoredCandidates,
                result |-> <<>>]
    /\ baker = NewBaker("state" :> md_)
    /\ roller = NewRoller
    /\ pc = "idle"
    /\ idx = 0
    /\ rel_order = <<>>
    /\ related_map = EmptyDict
    /\ origin = <<>>
    /\ last = "__init__"
    /\ err = "none"
    /\ out = NoOutput
    /\ log = <<>>
    /\ nq = 0
    /\ runs = 0
    /\ dateIn = <<>>
    /\ dateOut = NotCalled
    /\ nameIn \in [1..2 -> NameInputs]
    /\ nameOut = <<>>
    /\ recIn = NoRecord
    /\ recOut = NoRecord
    /\ calls = <<>>

\* the file names of a Baker of the state i.state for a write of the format
\* i.fmt at i.timestamp
NamesOf(i) ==
    [data     |-> filename("state" :> i.state, i.fmt, i.timestamp),
     manifest |-> manifest_filename("state" :> i.state, i.timestamp)]

NameFiles ==
    /\ nameOut = <<>>
    /\ nameOut' = [i \in 1..2 |-> NamesOf(nameIn[i])]
    /\ UNCHANGED <<store, baker, roller, pc, idx, rel_order, related_map,
                   origin, last, err, out, log, nq, runs, dateIn, dateOut,
                   nameIn, recIn, recOut, calls>>

NextNames == NameFiles

SpecNames == InitNames /\ [][NextNames]_vars

----------------------------------------------------------------------------
(* transform_field_names on its own, over the records of a schemaless      *)
(* store: any set of the names of a collection's table, old and new, and   *)
(* of one name the table does not know                                     *)

RenameValues == { <<"a">>, <<"b">> }

\* the names a record of the collection is drawn from
RenameNames(coll) ==
    (DOMAIN field_name_transforms[coll])
    \cup {field_name_transforms[coll][k] : k \in DOMAIN field_name_transforms[coll]}
    \cup {"state"}

RenameRecords(coll) ==
    UNION {[K -> RenameValues] : K \in SUBSET RenameNames(coll)}

InitRename ==
    /\ store = [contest |-> StoredContests, candidate |-> StoredCandidates,
                result |-> <<>>]
    /\ baker = NewBaker("state" :> md_)
    /\ roller = NewRoller
    /\ pc = "idle"
    /\ idx = 0
    /\ rel_order = <<>>
    /\ related_map = EmptyDict
    /\ origin = <<>>
    /\ last = "__init__"
    /\ err = "none"
    /\ out = NoOutput
    /\ log = <<>>
    /\ nq = 0
    /\ runs = 0
    /\ dateIn = <<>>
    /\ dateOut = NotCalled
    /\ nameIn = <<>>
    /\ nameOut = <<>>
    /\ \E coll \in DOMAIN field_name_transforms :
         \E data \in RenameRecords(coll) :
            recIn = [coll |-> coll, data |-> data]
    /\ recOut = NoRecord
    /\ calls = <<>>

\* roller.transform_field_names(data, roller.field_name_transforms[coll])
CallTransformFieldNames ==
    /\ recOut = NoRecord
    /\ recOut' = [coll |-> recIn.coll, data |-> Renamed(recIn.data, recIn.coll)]
    /\ UNCHANGED <<store, baker, roller, pc, idx, rel_order, related_map,
                   origin, last, err, out, log, nq, runs, dateIn, dateOut,
                   nameIn, nameOut, recIn, calls>>

NextRename == CallTransformFieldNames

SpecRename == InitRename /\ [][NextRename]_vars

----------------------------------------------------------------------------
(* Roller.get_list called on a Roller directly, more than once, and for    *)
(* Result documents with other reference fields                            *)

\* _relationships of a Result document whose reference to Candidate is
\* stored under the name winner
RenamedReference == ("winner" :> "candidate") @@ ("contest" :> "contest")

\* _relationships of a Result document with a second reference to Candidate
SecondReference ==
    ("candidate" :> "candidate") @@ ("runner_up" :> "candidate")
    @@ ("contest" :> "contest")

\* the store of the scenario, its Results holding the reference fields of
\* the relationships
ScenarioStoreOf(relationships) ==
    [ScenarioStore EXCEPT !.result =
        [i \in 1..Len(@) |->
            Update(Without(@[i], {"candidate"}),
                   [fname \in (DOMAIN relationships) \ {"contest"} |->
                       IF fname = "runner_up" THEN Oid("a", "2")
                       ELSE @[i]["candidate"]])]]

\* Roller() for the Result document of openelex.models on the stores of
\* Init, and for the two other Result documents on the scenario's store
RollerSetups ==
    {[roller |-> NewRoller, store |-> st] : st \in Stores}
    \cup {[roller |-> [NewRoller EXCEPT !.relationships = rel],
            store  |-> ScenarioStoreOf(rel)] :
              rel \in {RenamedReference, SecondReference}}

\* the criteria of a get_list call
RollerCriteria ==
    { ("state" :> md_),
      ("state" :> md_) @@ ("reporting_level" :> COUNTY_),
      ("state" :> md_) @@ ("datefilter" :> Y2012),
      ("state" :> md_) @@ ("datefilter" :> ABCD_) }

InitRoller ==
    /\ \E setup \in RollerSetups :
         /\ store = setup.store
         /\ roller = setup.roller
    /\ baker = NewBaker("state" :> md_)
    /\ pc = "idle"
    /\ idx = 0
    /\ rel_order = <<>>
    /\ related_map = EmptyDict
    /\ origin = <<>>
    /\ last = "__init__"
    /\ err = "none"
    /\ out = NoOutput
    /\ log = <<>>
    /\ nq = 0
    /\ runs = 0
    /\ dateIn = <<>>
    /\ dateOut = NotCalled
    /\ nameIn = <<>>
    /\ nameOut = <<>>
    /\ recIn = NoRecord
    /\ recOut = NoRecord
    /\ calls = <<>>

\* get_list up to the OrderedSet of the predicted fields, given what
\* build_filters returned: the filters and the field limits are applied to
\* the querysets the Roller holds
GetListWith(built) ==
    IF built.status # "ok"
    THEN /\ err' = built.status
         /\ pc' = "idle"
         /\ UNCHANGED <<roller, log>>
    ELSE /\ roller' = [roller EXCEPT
               !.querysets = apply_filters_and_limits(@, built.filters),
               !.fields = Set(OrderedSet(roller.output_fields))]
         /\ log' = log \o LimitOps
         /\ err' = "none"
         /\ pc' = "join"

\* roller.get_list(**filter_kwargs), up to the first store query
GetList ==
    /\ pc = "idle"
    /\ Len(calls) < MaxCalls
    /\ last' = "get_list"
    /\ \E filter_kwargs \in RollerCriteria :
         /\ calls' = Append(calls, filter_kwargs)
         /\ \E fmt_order \in FormatOrders :
              GetListWith(build_filters(filter_kwargs, fmt_order))
    /\ idx' = 0
    /\ rel_order' = <<>>
    /\ related_map' = EmptyDict
    /\ origin' = <<>>
    /\ out' = NoOutput
    /\ UNCHANGED <<store, baker, nq, runs, dateIn, dateOut, nameIn, nameOut,
                   recIn, recOut>>

\* get_list returns self._items
Returned ==
    /\ pc = "loop"
    /\ idx > Len(PrimaryRows)
    /\ out' = [NoOutput EXCEPT !.kind = "items", !.body = roller.items.v]
    /\ pc' = "idle"
    /\ idx' = 0
    /\ rel_order' = <<>>
    /\ UNCHANGED <<store, baker, roller, related_map, origin, last, err, log,
                   nq, runs, dateIn, dateOut, nameIn, nameOut, recIn, recOut,
                   calls>>

NextRoller ==
    \/ GetList
    \/ BuildRelatedMap
    \/ FlattenNext
    \/ Returned

SpecRoller == InitRoller /\ [][NextRoller]_vars

----------------------------------------------------------------------------
(* Properties of get_list and flatten *)

\* the last call was collect_items and it has ended
RunEnded == pc = "idle" /\ last = "collect_items"

\* ... and it has returned its rows
RunCompleted == RunEnded /\ err = "none"

\* the names of the identifier and of the reference fields
HiddenNames == {"_id"} \cup {p[2] : p \in DOMAIN reference_fields}

\* the identifiers of the records the filtered queryset of coll yields
FilteredIds(coll) ==
    {Str(store[coll][j]["_id"]) :
        j \in {k \in 1..Len(store[coll]) :
                  Matches(store[coll][k], roller.querysets[coll].q)}}

\* the Results the Result predicate selects, in the store's order
MatchingResults ==
    LET Test(rec) == Matches(rec, roller.querysets[primary_collection].q)
    IN  SelectSeq(store[primary_collection], Test)

\* the selected Results with a reference that no filtered record answers
Dangling ==
    {i \in 1..Len(MatchingResults) :
        \E fname \in DOMAIN roller.relationships :
            Str(MatchingResults[i][fname])
                \notin FilteredIds(roller.relationships[fname])}

\* the stored record of coll with the identifier id
Stored(coll, id) ==
    store[coll][CHOOSE j \in 1..Len(store[coll]) :
                    Str(store[coll][j]["_id"]) = id]

\* a stored record under its output names, without the fields the export
\* leaves out
Outward(rec, coll) ==
    Renamed(Without(rec, excluded_field_set(coll)
                         \cup (IF coll = primary_collection
                               THEN DOMAIN roller.relationships ELSE {})),
            coll)

\* the output record of the Result, and of a related record, of row i
RowResult(i) == Outward(Stored(primary_collection, origin[i]["result"]),
                        primary_collection)

RowRelated(i, fname) ==
    Outward(Stored(roller.relationships[fname], origin[i][fname]),
            roller.relationships[fname])

CalculatedNames == Range(calculated_fields_ordered)

\* C1: a run in which a selected Result refers to a Candidate or Contest
\* that the filtered collection does not hold ends with a lookup failure
\* and hands out no rows; a run that hands out rows has one row for each
\* selected Result, so that no Result is left out silently
C1_DanglingReferenceRaises ==
    /\ (RunEnded /\ roller.fields.set /\ Dangling # {})
          => (err = "KeyError" /\ out = NoOutput)
    /\ RunCompleted
          => (Dangling = {} /\ Len(out.body) = Len(MatchingResults))

\* a run that failed on a dangling reference after it had built a row
C1_Witness ==
    /\ RunEnded
    /\ err = "KeyError"
    /\ Dangling # {}
    /\ Len(roller.items.v) >= 1

\* C2: after a completed run every key of every row is in get_fields(),
\* and get_fields() holds every predicted field name -- names that only
\* some records carry included
C2_FieldsCoverRows ==
    RunCompleted =>
        /\ out.body = roller.items.v
        /\ \A i \in 1..Len(out.body) :
              DOMAIN out.body[i] \subseteq Range(get_fields(roller))
        /\ Range(NewRoller.output_fields) \subseteq Range(get_fields(roller))
        /\ baker.fields.v = get_fields(roller)

\* a completed run with a row that has an unpredicted field another row
\* lacks
C2_Witness ==
    /\ RunCompleted
    /\ \E i, j \in 1..Len(out.body) :
          \E k \in DOMAIN out.body[i] :
              /\ k \notin Range(NewRoller.output_fields)
              /\ k \notin DOMAIN out.body[j]

\* C3 as stated: whenever an output name is carried by a related record and
\* by the Result, the row holds the Result's value
C3_ResultAlwaysWins ==
    \A i \in 1..Len(origin) : \A fname \in DOMAIN roller.relationships :
        \A n \in (DOMAIN RowResult(i)) \cap (DOMAIN RowRelated(i, fname)) :
            roller.items.v[i][n] = RowResult(i)[n]

\* C3: whenever an output name is carried by a related record and by the
\* Result, the row holds the Result's value, unless the name is that of a
\* calculated field: then the row holds the calculated value
C3_ResultWinsButCalculated ==
    \A i \in 1..Len(origin) : \A fname \in DOMAIN roller.relationships :
        \A n \in (DOMAIN RowResult(i)) \cap (DOMAIN RowRelated(i, fname)) :
            IF n \in CalculatedNames
            THEN roller.items.v[i][n] = get_calculated_fields(roller.items.v[i])[n]
            ELSE roller.items.v[i][n] = RowResult(i)[n]

\* a row with a name on which its Result and a related record disagree
C3_Witness ==
    \E i \in 1..Len(origin) : \E fname \in DOMAIN roller.relationships :
        \E n \in (DOMAIN RowResult(i)) \cap (DOMAIN RowRelated(i, fname)) :
            /\ n \notin CalculatedNames
            /\ RowRelated(i, fname)[n] # RowResult(i)[n]
            /\ roller.items.v[i][n] = RowResult(i)[n]

\* C4: no row and no field list holds the name of a reference field or of
\* the identifier, and every row is built from exactly one Result, one
\* Candidate and one Contest: each of its values is the calculated one or
\* that of one of these three records
C4_NoReferenceFields ==
    /\ \A i \in 1..Len(roller.items.v) :
          DOMAIN roller.items.v[i] \cap HiddenNames = {}
    /\ Range(get_fields(roller)) \cap HiddenNames = {}
    /\ Range(baker.fields.v) \cap HiddenNames = {}
    /\ Len(origin) = Len(roller.items.v)
    /\ \A i \in 1..Len(origin) :
          /\ DOMAIN origin[i] = {"result", "candidate", "contest"}
          /\ \A c \in DOMAIN origin[i] :
                Cardinality({j \in 1..Len(store[c]) :
                                Str(store[c][j]["_id"]) = origin[i][c]}) = 1
          /\ \A n \in DOMAIN roller.items.v[i] :
                \/ n \in CalculatedNames
                \/ n \in DOMAIN RowResult(i)
                   /\ roller.items.v[i][n] = RowResult(i)[n]
                \/ \E fname \in DOMAIN roller.relationships :
                      /\ n \in DOMAIN RowRelated(i, fname)
                      /\ roller.items.v[i][n] = RowRelated(i, fname)[n]

\* a completed run with a row whose Result carries both references
C4_Witness ==
    /\ RunCompleted
    /\ \E i \in 1..Len(origin) :
          {"candidate", "contest"}
              \subseteq DOMAIN Stored(primary_collection, origin[i]["result"])

\* C5: the rows of a completed run are, one for one and in the store's
\* order, the Results the Result predicate selects
C5_OneRowPerResult ==
    RunCompleted =>
        /\ Len(out.body) = Len(MatchingResults)
        /\ \A i \in 1..Len(out.body) :
              /\ origin[i]["result"] = Str(MatchingResults[i]["_id"])
              /\ \A n \in (DOMAIN RowResult(i)) \ CalculatedNames :
                    out.body[i][n] = RowResult(i)[n]

\* a completed run with two different rows, out of two selected Results
C5_Witness ==
    /\ RunCompleted
    /\ Len(out.body) = 2
    /\ out.body[1] # out.body[2]

----------------------------------------------------------------------------
(* Properties of build_date_filters, build_filters and Baker.write *)

AllDigits(s) == \A i \in 1..Len(s) : s[i] \in Digits

\* the number a run of digits of s spells
Number(s, from, to) ==
    IF from = to THEN DigitVal(s[from])
    ELSE IF to = from + 1 THEN 10 * DigitVal(s[from]) + DigitVal(s[to])
    ELSE 1000 * DigitVal(s[from]) + 100 * DigitVal(s[from + 1])
         + 10 * DigitVal(s[from + 2]) + DigitVal(s[to])

\* s has the shape YYYY, YYYYMM or YYYYMMDD
HasDateShape(s) == AllDigits(s) /\ Len(s) \in {4, 6, 8}

\* s has one of the shapes and names a year, a month or a day that exists
IsValidDate(s) ==
    /\ HasDateShape(s)
    /\ Number(s, 1, 4) >= 1
    /\ Len(s) >= 6 => Number(s, 5, 6) \in 1..12
    /\ Len(s) = 8 =>
          Number(s, 7, 8) \in 1..DaysInMonth(Number(s, 1, 4), Number(s, 5, 6))

\* YYYY, YYYY-MM or YYYY-MM-DD of the same date
Dashed(s) ==
    IF Len(s) = 4 THEN s
    ELSE IF Len(s) = 6 THEN SubSeq(s, 1, 4) \o <<"-">> \o SubSeq(s, 5, 6)
    ELSE SubSeq(s, 1, 4) \o <<"-">> \o SubSeq(s, 5, 6) \o <<"-">> \o SubSeq(s, 7, 8)

\* C6: build_date_filters turns a valid YYYY, YYYYMM or YYYYMMDD string
\* into the substring constraint on its dash-delimited form, and raises
\* ValueError for every non-empty string of none of the three shapes
C6_DateShapes ==
    dateOut.status # "not called" =>
        /\ IsValidDate(dateIn) =>
              dateOut = [status |-> "ok",
                         q |-> Q("election_id__contains" :> Dashed(dateIn))]
        /\ (dateIn # <<>> /\ ~HasDateShape(dateIn)) =>
              dateOut.status = "ValueError"

\* no format of the table parses the string
Unparseable(s) ==
    \A infmt \in DOMAIN datefilter_formats : ~Strptime(s, infmt).ok

\* C7: a collect_items call whose datefilter no format parses raises
\* ValueError, and when it does no filter and no projection has been
\* applied to a queryset and nothing has been read from the store
C7_DateErrorBeforeStore ==
    /\ (last = "collect_items"
        /\ "datefilter" \in DOMAIN baker.filter_kwargs
        /\ baker.filter_kwargs["datefilter"] # <<>>
        /\ Unparseable(baker.filter_kwargs["datefilter"]))
          => (pc = "idle" /\ err = "ValueError")
    /\ (last = "collect_items" /\ err = "ValueError")
          => /\ log = <<>>
             /\ \A c \in DOMAIN roller.querysets : roller.querysets[c] = Objects
             /\ related_map = EmptyDict
             /\ ~roller.items.set
             /\ out = NoOutput

\* a collect_items call that raised ValueError for its datefilter
C7_Witness ==
    /\ last = "collect_items"
    /\ err = "ValueError"
    /\ Unparseable(baker.filter_kwargs["datefilter"])

\* C8: a run given a reporting_level outside REPORTING_LEVEL_CHOICES fails
\* before any store operation; the value never becomes a filter
C8_InvalidLevelRejected ==
    ("reporting_level" \in DOMAIN baker.filter_kwargs
     /\ baker.filter_kwargs["reporting_level"] \notin REPORTING_LEVEL_CHOICES
     /\ last = "collect_items")
        => /\ err # "none"
           /\ log = <<>>
           /\ \A c \in DOMAIN roller.querysets : roller.querysets[c] = Objects

\* C9: in every sequence of Baker calls, UnsupportedFormatError is raised
\* before any store query has been executed
C9_FormatCheckedFirst ==
    err = "UnsupportedFormatError" => nq = 0

\* the keyword constraints a Q is the conjunction of
Conjuncts(q) ==
    UNION {{<<k, q[i][k]>> : k \in DOMAIN q[i]} : i \in DOMAIN q}

\* the constraints on state and election type the criteria ask for
StateAndType(kwargs) ==
    {<<"state", Upper(kwargs["state"])>>}
    \cup (IF "election_type" \in DOMAIN kwargs
          THEN {<<"election_id__contains", kwargs["election_type"]>>}
          ELSE {})

\* the date constraints build_date_filters may return for the criteria
DateConjuncts(kwargs) ==
    IF "datefilter" \in DOMAIN kwargs
    THEN {Conjuncts(BuildDateFilters(kwargs["datefilter"], o).q) :
             o \in FormatOrders}
    ELSE {{}}

\* the reporting_level constraints of a Q
LevelConjuncts(q) == {c \in Conjuncts(q) : c[1] = "reporting_level"}

\* C10: once build_filters has succeeded, the predicate of each of the
\* three collections is, reporting_level aside, the conjunction of state =
\* the upper-cased state, of "election_id contains election_type" when an
\* election type is supplied and of "election_id contains the reformatted
\* date" when a date is supplied -- both substring constraints when both
\* are supplied, the state alone when neither is
C10_ConjunctivePredicate ==
    roller.fields.set =>
        \E d \in DateConjuncts(baker.filter_kwargs) :
            \A c \in Range(collections) :
                Conjuncts(roller.querysets[c].q)
                    \ LevelConjuncts(roller.querysets[c].q)
                = StateAndType(baker.filter_kwargs) \cup d

\* filters built from an election type and a date
C10_Witness ==
    /\ roller.fields.set
    /\ "election_type" \in DOMAIN baker.filter_kwargs
    /\ "datefilter" \in DOMAIN baker.filter_kwargs
    /\ baker.filter_kwargs["datefilter"] # <<>>
    /\ Cardinality(Conjuncts(roller.querysets["contest"].q)) = 3

\* C11: once build_filters has succeeded with a reporting_level among the
\* criteria, the Result predicate holds exactly one reporting_level
\* constraint, the exact match on the value supplied, and the Contest and
\* Candidate predicates hold none; without the criterion no predicate does
C11_LevelOnResultOnly ==
    roller.fields.set =>
        /\ LevelConjuncts(roller.querysets[primary_collection].q)
             = (IF "reporting_level" \in DOMAIN baker.filter_kwargs
                THEN {<<"reporting_level", baker.filter_kwargs["reporting_level"]>>}
                ELSE {})
        /\ \A c \in Range(collections) \ {primary_collection} :
              LevelConjuncts(roller.querysets[c].q) = {}

\* filters built from criteria with a reporting_level, the related
\* collections read
C11_Witness ==
    /\ roller.fields.set
    /\ "reporting_level" \in DOMAIN baker.filter_kwargs
    /\ pc = "loop"
    /\ DOMAIN related_map["candidate"] # {}

----------------------------------------------------------------------------
(* Properties of the Baker's files *)

\* the last call was a write that left the file of the format fmt
WroteFile(fmt) ==
    /\ last = "write"
    /\ out.kind = "file"
    /\ \E timestamp \in Timestamps :
          out.name = filename(baker.filter_kwargs, fmt, timestamp)

\* C12: the csv file written after a completed collect_items has the
\* accumulated field list as its header, in its order, and one row per
\* collected item, in their order; the writer rejects no row; every row
\* has one cell per header column, the text of the item's value where the
\* item has the field and the empty string where it has not, and every
\* key of an item has its column
C12_CsvShape ==
    (WroteFile(<<"c", "s", "v">>) /\ baker.fields.set) =>
        /\ err = "none"
        /\ out.header = baker.fields.v
        /\ Len(out.body) = Len(baker.items.v)
        /\ \A i \in 1..Len(out.body) :
              /\ Len(out.body[i]) = Len(out.header)
              /\ DOMAIN baker.items.v[i] \subseteq Range(out.header)
              /\ \A j \in 1..Len(out.header) :
                    out.body[i][j] =
                        IF out.header[j] \in DOMAIN baker.items.v[i]
                        THEN CsvText(baker.items.v[i][out.header[j]])
                        ELSE <<>>

\* a csv file of two rows, one of them without a field of the header
C12_Witness ==
    /\ WroteFile(<<"c", "s", "v">>)
    /\ baker.fields.set
    /\ Len(out.body) = 2
    /\ \E i \in 1..2 : \E j \in 1..Len(out.header) :
          /\ out.header[j] \notin DOMAIN baker.items.v[i]
          /\ out.body[i][j] = <<>>

\* the text of a timestamp spells the timestamp, as YYYYMMDDTHHMMSS
SpellsStamp(text, ts) ==
    /\ Len(text) = 15
    /\ text[9] = "T"
    /\ \A k \in (1..15) \ {9} : text[k] \in Digits
    /\ Number(text, 1, 4) = ts.y
    /\ Number(text, 5, 6) = ts.m
    /\ Number(text, 7, 8) = ts.d
    /\ Number(text, 10, 11) = ts.H
    /\ Number(text, 12, 13) = ts.M
    /\ Number(text, 14, 15) = ts.S

\* name is prefix, "_", the text of the timestamp, then suffix
NameShape(name, prefix, ts, suffix) ==
    /\ Len(name) = Len(prefix) + 16 + Len(suffix)
    /\ SubSeq(name, 1, Len(prefix)) = prefix
    /\ name[Len(prefix) + 1] = "_"
    /\ SpellsStamp(SubSeq(name, Len(prefix) + 2, Len(prefix) + 16), ts)
    /\ SubSeq(name, Len(prefix) + 17, Len(name)) = suffix

\* two timestamps are the same to the second
SameSecond(a, b) ==
    /\ a.y = b.y /\ a.m = b.m /\ a.d = b.d
    /\ a.H = b.H /\ a.M = b.M /\ a.S = b.S

\* C13: the data file is named lower-cased state, "_", YYYYMMDDTHHMMSS of
\* the timestamp, ".", format, and the manifest lower-cased state, "_", the
\* same timestamp text, "_manifest.txt"; two writes have the same data name
\* only if their timestamps are the same to the second, their states are
\* the same but for case and their formats are the same; no manifest name
\* is a data name
C13_OutputNaming ==
    nameOut # <<>> =>
        /\ \A i \in 1..2 :
              /\ NameShape(nameOut[i].data, Lower(nameIn[i].state),
                           nameIn[i].timestamp, <<".">> \o nameIn[i].fmt)
              /\ NameShape(nameOut[i].manifest, Lower(nameIn[i].state),
                           nameIn[i].timestamp,
                           <<"_", "m", "a", "n", "i", "f", "e", "s", "t",
                             ".", "t", "x", "t">>)
        /\ nameOut[1].data = nameOut[2].data =>
              /\ SameSecond(nameIn[1].timestamp, nameIn[2].timestamp)
              /\ Lower(nameIn[1].state) = Lower(nameIn[2].state)
              /\ nameIn[1].fmt = nameIn[2].fmt
        /\ \A i, j \in 1..2 : nameOut[i].manifest # nameOut[j].data

\* two writes of states that differ in case only and of timestamps that
\* differ in their microseconds only: one data name
C13_Witness ==
    /\ nameOut # <<>>
    /\ nameIn[1].state # nameIn[2].state
    /\ nameIn[1].timestamp # nameIn[2].timestamp
    /\ nameOut[1].data = nameOut[2].data

\* C14: write_manifest succeeds whatever the Baker has collected -- before
\* any collect_items and after one that raised too -- and writes the line
\* of the timestamp and, for every criterion the Baker was given, exactly
\* one line of its name and its value
C14_ManifestAlways ==
    last = "write_manifest" =>
        /\ err = "none"
        /\ out.kind = "file"
        /\ \E timestamp \in Timestamps :
              /\ out.name = manifest_filename(baker.filter_kwargs, timestamp)
              /\ out.header =
                    <<"G", "e", "n", "e", "r", "a", "t", "e", "d", " ", "o", "n", " ">>
                    \o TimestampText(timestamp)
        /\ {line[1] : line \in out.body} = DOMAIN baker.filter_kwargs
        /\ Cardinality(out.body) = Cardinality(DOMAIN baker.filter_kwargs)
        /\ \A line \in out.body : line[2] = baker.filter_kwargs[line[1]]

\* a manifest of two criteria, written after a collect_items that raised
C14_Witness ==
    /\ last = "write_manifest"
    /\ runs > 0
    /\ ~baker.items.set
    /\ Cardinality(out.body) = 2

----------------------------------------------------------------------------
(* Further properties of get_list *)

\* C15: on the store of the scenario, an export of state=md and
\* datefilter=2012 completes with exactly two rows; each has the id
\* md-2012-11-06-general and the year 2012, the first 1000 votes and the
\* second 900, and neither has a candidate or a contest key
C15_EndToEnd ==
    (RunEnded /\ store = ScenarioStore
     /\ baker.filter_kwargs = ("state" :> md_) @@ ("datefilter" :> Y2012))
        => /\ err = "none"
           /\ Len(out.body) = 2
           /\ \A i \in 1..2 :
                 /\ {"id", "votes", "year"} \subseteq DOMAIN out.body[i]
                 /\ out.body[i]["id"] = E2012
                 /\ out.body[i]["year"] = Y2012
                 /\ {"candidate", "contest"} \cap DOMAIN out.body[i] = {}
           /\ out.body[1]["votes"] = VOTES1000
           /\ out.body[2]["votes"] = VOTES900

\* the export of the scenario has ended
C15_Witness ==
    /\ RunEnded
    /\ store = ScenarioStore
    /\ baker.filter_kwargs = ("state" :> md_) @@ ("datefilter" :> Y2012)
    /\ Len(out.body) = 2

IsPrefix(a, b) == Len(a) <= Len(b) /\ SubSeq(b, 1, Len(a)) = a

\* where x occurs first in seq
FirstIndex(seq, x) ==
    CHOOSE i \in 1..Len(seq) : seq[i] = x /\ \A j \in 1..(i - 1) : seq[j] # x

\* fields is seq without its repetitions: every name of seq once, in the
\* order of the first occurrences
IsDeduplicated(fields, seq) ==
    /\ Range(fields) = Range(seq)
    /\ \A i, j \in 1..Len(fields) :
          i < j => FirstIndex(seq, fields[i]) < FirstIndex(seq, fields[j])

\* C16: in a get_list run the field sequence starts as the predicted
\* fields without their repetitions; every step of the run leaves the
\* sequence it had as a prefix of the one it has then; a run that has
\* selected no Result ends with the sequence it started with
C16_FieldsOnlyGrow ==
    /\ [](pc = "join" =>
             IsDeduplicated(roller.fields.v, roller.output_fields))
    /\ []((RunCompleted /\ Len(out.body) = 0) =>
             IsDeduplicated(get_fields(roller), roller.output_fields))
    /\ [][(pc = "join" \/ pc = "loop") =>
             IsPrefix(roller.fields.v, roller.fields.v')]_vars

\* a run in which the field sequence has grown, with a Result yet to go
C16_Witness ==
    /\ pc = "loop"
    /\ idx = 2
    /\ idx <= Len(PrimaryRows)
    /\ Len(roller.fields.v) > Cardinality(Range(roller.output_fields))

\* C17: no step of an export -- collect_items with its get_list and
\* flatten, write, write_manifest, whether it returns or raises -- changes
\* the Contest, Candidate or Result records of the store
C17_StoreReadOnly ==
    [][\A c \in DOMAIN store : store'[c] = store[c]]_vars

\* flatten has changed a related record in place and the run has ended
C17_Witness ==
    /\ RunEnded
    /\ \E c \in DOMAIN related_map : \E k \in DOMAIN related_map[c] :
          /\ "_id" \notin DOMAIN related_map[c][k]
          /\ related_map[c][k] # Without(Stored(c, k), {"_id"})

\* the record of collection c that row i was built from, as the queryset
\* yields it and without its identifier and references
RowRaw(i, c) ==
    Without(Stored(c, origin[i][c]),
            excluded_field_set(c) \cup DOMAIN roller.relationships)

\* C18: the rename table is election_id -> id, total_votes -> votes and
\* ocd_id -> division for Result, given_name -> first_name, family_name ->
\* last_name and additional_name -> middle_name for Candidate and updated
\* -> updated_at for Contest, and year is the one calculated field; in
\* every row, for every renamed field that the record of its collection
\* carries, the new name is a key of the row, and the old name is a key
\* of the row only where the record of another collection, for which the
\* name is not renamed, carries it and the row holds such a record's value
C18_RenameTable ==
    /\ field_name_transforms =
          [result    |-> [election_id |-> "id", total_votes |-> "votes",
                          ocd_id |-> "division"],
           candidate |-> [given_name |-> "first_name",
                          family_name |-> "last_name",
                          additional_name |-> "middle_name"],
           contest   |-> [updated |-> "updated_at"]]
    /\ calculated_fields_ordered = <<"year">>
    /\ \A i \in 1..Len(origin) : \A c \in DOMAIN field_name_transforms :
          \A f \in (DOMAIN field_name_transforms[c]) \cap (DOMAIN RowRaw(i, c)) :
              /\ field_name_transforms[c][f] \in DOMAIN roller.items.v[i]
              /\ f \in DOMAIN roller.items.v[i] =>
                    \E c2 \in (DOMAIN origin[i]) \ {c} :
                        /\ f \in DOMAIN RowRaw(i, c2)
                        /\ transform_field_name(c2, f) = f
                        /\ roller.items.v[i][f] = RowRaw(i, c2)[f]

\* a row with the Contest's updated under its new name and with the
\* updated of another record
C18_Witness ==
    /\ RunCompleted
    /\ \E i \in 1..Len(origin) :
          /\ "updated" \in DOMAIN RowRaw(i, "contest")
          /\ {"updated", "updated_at"} \subseteq DOMAIN roller.items.v[i]

\* a text starts with a prefix
StartsWith(v, prefix) ==
    Len(v) >= Len(prefix) /\ SubSeq(v, 1, Len(prefix)) = prefix

\* the value a written JSON value stands for: the date of an extended-JSON
\* date, the identifier of an extended-JSON identifier, else the text
JsonRead(v) ==
    IF StartsWith(v, <<"$", "d", "a", "t", "e", ":">>)
    THEN <<"@">> \o SubSeq(v, 7, Len(v))
    ELSE IF StartsWith(v, <<"$", "o", "i", "d", ":">>)
    THEN <<"#">> \o SubSeq(v, 6, Len(v))
    ELSE v

NoDuplicates(seq) ==
    \A i, j \in 1..Len(seq) : i # j => seq[i] # seq[j]

\* C20: the field sequence the constructor predicts, which get_fields()
\* returns before any get_list, holds no name twice -- a name that several
\* collections contribute included -- and ends with the calculated names
C20_PredictedFieldsDistinct ==
    ~roller.fields.set =>
        /\ get_fields(roller) = roller.output_fields
        /\ NoDuplicates(get_fields(roller))
        /\ Len(get_fields(roller)) >= Len(calculated_fields_ordered)
        /\ SubSeq(get_fields(roller),
                  Len(get_fields(roller)) - Len(calculated_fields_ordered) + 1,
                  Len(get_fields(roller))) = calculated_fields_ordered

----------------------------------------------------------------------------
(* Properties of transform_field_names on its own *)

\* the rename table of the record's collection
TableOf(rec) == field_name_transforms[rec.coll]

\* the names of the record that the table renames, and the others
Listed(rec) == (DOMAIN rec.data) \cap (DOMAIN TableOf(rec))

Unlisted(rec) == (DOMAIN rec.data) \ (DOMAIN TableOf(rec))

\* the record already holds a field under an external name of one of its
\* listed fields
Clashes(rec) == {k \in Listed(rec) : TableOf(rec)[k] \in DOMAIN rec.data}

\* C21 as stated: transform_field_names moves the value of each listed
\* field to its external name and leaves every other field's name and
\* value as they were, so that the record has as many values after as
\* before; _transform_field_name is the table entry, or the name itself
C21_RenameKeepsEveryValue ==
    recOut # NoRecord =>
        /\ \A k \in Listed(recIn) : /\ TableOf(recIn)[k] \in DOMAIN recOut.data
                                     /\ recOut.data[TableOf(recIn)[k]] = recIn.data[k]
        /\ \A k \in Unlisted(recIn) : /\ k \in DOMAIN recOut.data
                                       /\ recOut.data[k] = recIn.data[k]
        /\ Cardinality(DOMAIN recOut.data) = Cardinality(DOMAIN recIn.data)
        /\ \A n \in RenameNames(recIn.coll) :
              transform_field_name(recIn.coll, n) =
                 IF n \in DOMAIN TableOf(recIn) THEN TableOf(recIn)[n] ELSE n

\* C21, amended: the names of the record after the call are the images of
\* its names under _transform_field_name, each listed field's value is
\* under its external name, and every other field keeps its value unless
\* its name is the external name of a listed field of the record (then the
\* moved value has replaced it); a record without such a field has as many
\* values after as before
C21_RenameTotalUnlessClash ==
    recOut # NoRecord =>
        /\ DOMAIN recOut.data =
              {transform_field_name(recIn.coll, k) : k \in DOMAIN recIn.data}
        /\ \A k \in Listed(recIn) :
              recOut.data[TableOf(recIn)[k]] = recIn.data[k]
        /\ \A k \in Unlisted(recIn) :
              (\A j \in Listed(recIn) : TableOf(recIn)[j] # k)
                 => recOut.data[k] = recIn.data[k]
        /\ Clashes(recIn) = {}
              => Cardinality(DOMAIN recOut.data) = Cardinality(DOMAIN recIn.data)
        /\ \A n \in RenameNames(recIn.coll) :
              transform_field_name(recIn.coll, n) =
                 IF n \in DOMAIN TableOf(recIn) THEN TableOf(recIn)[n] ELSE n

\* a Result with listed and unlisted fields and no clash has been renamed
C21_Witness ==
    /\ recOut # NoRecord
    /\ recIn.coll = "result"
    /\ DOMAIN recIn.data = {"election_id", "total_votes", "state"}
    /\ DOMAIN recOut.data = {"id", "votes", "state"}

----------------------------------------------------------------------------
(* Properties of the calculated fields *)

\* C22: the calculators run on the fully merged row: in every row of a run
\* that returned, start_date is the Result's own value when the Result
\* carries one, and year is the year of the row's start_date, whatever the
\* records carry under the name year
C22_CalculatedAfterMerge ==
    RunCompleted =>
        \A i \in 1..Len(out.body) :
            /\ "start_date" \in DOMAIN out.body[i]
            /\ "start_date" \in DOMAIN RowResult(i)
                  => out.body[i]["start_date"] = RowResult(i)["start_date"]
            /\ "year" \in DOMAIN out.body[i]
            /\ out.body[i]["year"] = Year(out.body[i]["start_date"])

\* a row of a Result whose own start_date and year differ from its
\* Contest's start_date
C22_Witness ==
    /\ RunCompleted
    /\ \E i \in 1..Len(out.body) :
          /\ "start_date" \in DOMAIN RowResult(i)
          /\ "year" \in DOMAIN RowResult(i)
          /\ RowRelated(i, "contest")["start_date"] # RowResult(i)["start_date"]
          /\ out.body[i]["year"] = Year(D2010)
          /\ RowResult(i)["year"] # Year(D2010)

----------------------------------------------------------------------------
(* Properties of the excluded fields *)

\* the records row i was built from: the Result and one per relationship
RowKeys == {"result"} \cup DOMAIN roller.relationships

RowColl(key) ==
    IF key = "result" THEN primary_collection ELSE roller.relationships[key]

RowStored(i, key) == Stored(RowColl(key), origin[i][key])

\* the excluded fields the record behind row i carries, by output name
ExcludedOf(i, key) ==
    {transform_field_name(RowColl(key), f) :
        f \in (DOMAIN RowStored(i, key)) \cap excluded_field_set(RowColl(key))}

\* the name n of row i has the value another record of the row gives it
FromAnother(i, key, n) ==
    \/ n \in CalculatedNames
    \/ \E other \in RowKeys \ {key} :
          /\ n \in DOMAIN Outward(RowStored(i, other), RowColl(other))
          /\ out.body[i][n] = Outward(RowStored(i, other), RowColl(other))[n]

\* C23: no record gives a row a field of its collection's exclude set (the
\* records read from the store do not carry one, and a row holds such a
\* name only with the value of another collection's record), no collection
\* adds an excluded field to the predicted fields,
\* and the row's id is the Result's election_id
C23_ExcludedNeverContributed ==
    /\ pc = "loop" =>
          /\ \A key \in DOMAIN related_map : \A k \in DOMAIN related_map[key] :
                \A f \in excluded_fields[roller.relationships[key]] :
                    transform_field_name(roller.relationships[key], f)
                        \notin DOMAIN related_map[key][k]
          /\ \A j \in 1..Len(PrimaryRows) :
                (DOMAIN PrimaryRows[j]) \cap excluded_fields[primary_collection] = {}
    /\ RunCompleted =>
          \A i \in 1..Len(out.body) :
              /\ \A key \in RowKeys : \A n \in ExcludedOf(i, key) :
                    n \in DOMAIN out.body[i] => FromAnother(i, key, n)
              /\ "id" \in DOMAIN out.body[i]
              /\ out.body[i]["id"] = RowStored(i, "result")["election_id"]
    /\ \A c \in CollectionNames : \A f \in excluded_field_set(c) :
          transform_field_name(c, f) \notin Range(contributed_fields(c))
    /\ \A n \in Range(roller.output_fields) :
          \/ n \in CalculatedNames
          \/ \E c \in CollectionNames :
                \E f \in Range(fields_ordered(c)) \ excluded_field_set(c) :
                    transform_field_name(c, f) = n

\* a row whose Candidate and Contest carry excluded fields (slug, source,
\* election_id): the row has the Result's source and no slug
C23_Witness ==
    /\ RunCompleted
    /\ \E i \in 1..Len(out.body) :
          /\ {"slug", "source", "election_id"} \subseteq ExcludedOf(i, "candidate")
          /\ {"slug", "source", "election_id"} \subseteq ExcludedOf(i, "contest")
          /\ "raw_result" \in ExcludedOf(i, "result")
          /\ out.body[i]["source"] = RowStored(i, "result")["source"]
          /\ "slug" \notin DOMAIN out.body[i]
          /\ out.body[i]["id"] # RowStored(i, "contest")["_id"]

----------------------------------------------------------------------------
(* Properties of the join *)

\* the number of times the current Roller has iterated the collection
Iterations(c) ==
    Cardinality({i \in 1..Len(log) : log[i] = <<"iterate", c>>})

\* the position of the collection's first iteration in the log
FirstIteration(c) ==
    CHOOSE i \in 1..Len(log) :
        /\ log[i] = <<"iterate", c>>
        /\ \A j \in 1..(i - 1) : log[j] # <<"iterate", c>>

\* the current Roller's get_list is in the loop over the Results, or left it
Joined == pc = "loop" \/ (pc = "idle" /\ roller.items.set)

\* C24: once get_list is at its loop, and until the run ends, Candidate,
\* Contest and Result have each been iterated exactly once, Candidate and
\* Contest before Result, however many Results have been processed; before
\* that nothing has been iterated and no row exists
C24_BatchThenMap ==
    /\ Joined =>
          /\ \A c \in CollectionNames : Iterations(c) = 1
          /\ \A fname \in DOMAIN roller.relationships :
                FirstIteration(roller.relationships[fname])
                    < FirstIteration(primary_collection)
    /\ ~Joined =>
          /\ \A c \in CollectionNames : Iterations(c) = 0
          /\ roller.items.set => roller.items.v = <<>>

\* a run that built two rows
C24_Witness ==
    /\ RunCompleted
    /\ Len(out.body) = 2
    /\ Len(roller.items.v) = 2
    /\ Iterations("candidate") = 1

----------------------------------------------------------------------------
(* Properties of a failed collect_items *)

\* C25: the Baker's items and fields change only in the step in which
\* get_list returns, after the last Result, and they become the full list;
\* a call that raises leaves them as they were before it; so a csv or json
\* file holds either every collected item or, when nothing was collected,
\* no row
C25_NoPartialOutput ==
    /\ [][baker' # baker =>
             /\ pc = "loop" /\ idx > Len(PrimaryRows)
             /\ pc' = "idle" /\ err' = "none"
             /\ baker'.items = Set(roller.items.v)
             /\ baker'.fields = Set(roller.fields.v)
             /\ baker'.filter_kwargs = baker.filter_kwargs]_vars
    /\ [][(last' = "collect_items" /\ pc' = "idle" /\ err' # "none")
             => baker' = baker]_vars
    /\ []((WroteFile(<<"c", "s", "v">>) \/ WroteFile(<<"j", "s", "o", "n">>)) =>
             IF baker.items.set
             THEN Len(out.body) = Len(baker.items.v)
             ELSE out.body = <<>>)

\* a write after a collect_items that raised with one row built and a
\* selected Result left: the Baker has no items and the file no row
C25_Witness ==
    /\ last = "write"
    /\ out.kind = "file"
    /\ roller.items.set
    /\ Len(roller.items.v) = 1
    /\ Len(MatchingResults) = 2
    /\ ~baker.items.set
    /\ out.body = <<>>

----------------------------------------------------------------------------
(* Properties of the format dispatch of write *)

\* C26: a write of a format other than csv and json, manifest among them,
\* ends with UnsupportedFormatError, makes no directory and writes no file
C26_OnlyCsvAndJson ==
    (/\ last = "write"
     /\ ~WroteFile(<<"c", "s", "v">>)
     /\ ~WroteFile(<<"j", "s", "o", "n">>)) =>
        /\ err = "UnsupportedFormatError"
        /\ out.kind = "none"
        /\ ~out.mkdir

----------------------------------------------------------------------------
(* Properties of the order of the format table *)

\* the formats of the table that parse the string
ParsingFormats(s) ==
    {infmt \in DOMAIN datefilter_formats : Strptime(s, infmt).ok}

\* C27: at most one format of the table parses a datefilter, and what
\* build_date_filters returns is what it returns under every order in
\* which the table can be iterated
C27_FormatOrderIrrelevant ==
    dateOut.status # "not called" =>
        /\ Cardinality(ParsingFormats(dateIn)) <= 1
        /\ \A order \in FormatOrders :
              BuildDateFilters(dateIn, order) = dateOut

----------------------------------------------------------------------------
(* Properties of the related records shared between rows *)

\* the records behind row i as a query of their own would yield them
FreshPrimary(i) ==
    Without(RowStored(i, "result"), excluded_fields[primary_collection])

FreshRelated(i) ==
    [fname \in DOMAIN roller.relationships |->
        Without(RowStored(i, fname), excluded_fields[roller.relationships[fname]])]

\* C29: every row is the row flatten builds from untouched copies of its
\* Result, Candidate and Contest, however many earlier rows have used (and
\* renamed in place) the same Candidate or Contest; the lookup map keeps
\* the record of each identifier under that identifier, and two rows of the
\* same related record hold the same names of it
C29_SharedRecordsIdempotent ==
    pc = "loop" =>
        /\ \A i \in 1..Len(roller.items.v) :
              roller.items.v[i] =
                  flatten(FreshPrimary(i), FreshRelated(i),
                          roller.relationships, rel_order).flat
        /\ \A i, j \in 1..Len(roller.items.v) :
              \A fname \in DOMAIN roller.relationships :
                  origin[i][fname] = origin[j][fname] =>
                      \A n \in DOMAIN RowRelated(i, fname) :
                          /\ n \in DOMAIN roller.items.v[i]
                          /\ n \in DOMAIN roller.items.v[j]
        /\ \A key \in DOMAIN related_map : \A k \in DOMAIN related_map[key] :
              \/ related_map[key][k] =
                    Without(Stored(roller.relationships[key], k),
                            excluded_fields[roller.relationships[key]])
              \/ related_map[key][k] =
                    Outward(Stored(roller.relationships[key], k),
                            roller.relationships[key])

\* two rows of different Results with the same Candidate and Contest
C29_Witness ==
    /\ pc = "loop"
    /\ Len(roller.items.v) = 2
    /\ origin[1]["result"] # origin[2]["result"]
    /\ origin[1]["candidate"] = origin[2]["candidate"]
    /\ origin[1]["contest"] = origin[2]["contest"]
    /\ "first_name" \in DOMAIN roller.items.v[2]
    /\ roller.items.v[2]["first_name"] =
          Stored("candidate", origin[2]["candidate"])["given_name"]

----------------------------------------------------------------------------
(* Properties of get_list called on a Roller directly *)

\* the last call was get_list and it has returned its rows
ListReturned == pc = "idle" /\ last = "get_list" /\ err = "none"

\* the querysets of a newly constructed Roller after the filters and the
\* field limits of a get_list with these criteria
FreshQuerysets(filter_kwargs, fmt_order) ==
    apply_filters_and_limits(NewRoller.querysets,
                             build_filters(filter_kwargs, fmt_order).filters)

\* the identifiers of the Results a queryset selects, in the store's order
SelectedBy(qs) ==
    LET Test(rec) == Matches(rec, qs.q)
        hits      == SelectSeq(store[primary_collection], Test)
    IN  [i \in 1..Len(hits) |-> Str(hits[i]["_id"])]

C30_GetListIndependent ==
    ListReturned =>
        \E fmt_order \in FormatOrders :
            /\ [i \in 1..Len(origin) |-> origin[i]["result"]] =
                  SelectedBy(FreshQuerysets(calls[Len(calls)], fmt_order)
                                [primary_collection])
            /\ Len(out.body) = Len(origin)
            /\ Range(roller.fields.v) =
                  Range(roller.output_fields)
                  \cup UNION {DOMAIN out.body[i] : i \in 1..Len(out.body)}

====
